---------------------------- MODULE Spec2Model ----------------------------
(***************************************************************************)
(* Profile bootstrap-and-sync protocol of the Sultan platform client.      *)
(*                                                                         *)
(*   src/AuthGate.tsx  the sign-in gate: password submit, Google popup and *)
(*                     the Telegram bridge callback, each provisioning a   *)
(*                     profile document on first sign-in                   *)
(*   src/App.tsx       the application shell: the auth-state observer, the *)
(*                     live profile mirror and the write-through mutations *)
(*                                                                         *)
(* Every handler is asynchronous JavaScript: it runs atomically up to its  *)
(* next await, so each handler is one action per awaited call.  A call to  *)
(* the auth provider or to the profile store takes effect at the step that *)
(* resolves its promise, and either succeeds (ok = TRUE) or rejects.       *)
(***************************************************************************)
EXTENDS Integers, Sequences, FiniteSets, TLC

(***************************************************************************)
(* Bounds of the model.                                                    *)
(***************************************************************************)
\* user-initiated operations (sign-in starts, mutations, logouts) in a run
MaxEvents == 2
\* sign-in attempts that can be in flight at the same time
MaxInFlight == 2

(***************************************************************************)
(* Program constants.                                                      *)
(***************************************************************************)
\* points: 1000 in the three newUser literals
DefaultPoints == 1000
\* const xpToNextLevel = user.level * 1000
XpPerLevel == 1000

(***************************************************************************)
(* Values.                                                                 *)
(***************************************************************************)
\* auth.currentUser === null, and the firebaseUser of a signed-out event
NoUser == "none"
\* a missing document (docSnap.exists() is false); also the null mirror
NoProfile == [absent |-> TRUE]

\* uids the auth provider can issue, by sign-in method
PasswordUids == {"p1"}
GoogleUids == {"g1"}
AnonUids == {"a1"}
Uids == PasswordUids \cup GoogleUids \cup AnonUids

\* payloads the Telegram widget hands to window.onTelegramAuth
TgUsers ==
  { [id |-> 55, first_name |-> "Omar", last_name |-> "", username |-> "omarx"],
    [id |-> 77, first_name |-> "Ali", last_name |-> "Hassan", username |-> ""] }
\* what the Google popup reports of the account (both may be missing)
GoogleUsers ==
  { [displayName |-> "Gina", email |-> "g@x.com"],
    [displayName |-> "", email |-> ""] }
\* contents of the form's fields at submit
FormNames == {"", "Amira"}
FormEmails == {"a@x.com"}
\* amounts the pages pass to addXP and to updatePoints
XpAmounts == {600, 1200, 3000}
PointAmounts == {10, 25}
\* readings of Date.now()
Clock == {1, 2}
Slots == 1..MaxInFlight

\* error texts of the gate (ASCII stand-ins of the Arabic literals)
ErrTelegram == "telegram sign-in failed, try later"
ErrGoogle == "google sign-in failed, allow popups"
ErrUserNotFound == "user does not exist"
ErrCredentials == "wrong email or password"
\* toasts of the shell
ToastGhostOff == "ghost mode cancelled"
ToastGhostOn == "you are now hidden"
ToastLogout == "signed out"
ToastLevelUp(newLevel) == "level up to " \o ToString(newLevel)
NoToast == ""
\* display names used when the method supplies none
NameUnknownSultan == "unknown sultan"
NameNewSultan == "new sultan"

(***************************************************************************)
(* State.                                                                  *)
(***************************************************************************)
VARIABLES
  \* --- auth provider ---
  authUser,      \* auth.currentUser: a uid or NoUser
  accounts,      \* uids the provider has issued so far
  authInit,      \* the observer has had its first call
  \* --- profile store ---
  store,         \* users/<uid>: a profile or NoProfile
  listening,     \* uids with an onSnapshot listener of this client
  inbox,         \* per uid, snapshots committed but not yet delivered
  writes,        \* updateDoc calls of the shell awaiting the store, in issue order
  \* --- App ---
  user,          \* the local mirror (useState<User | null>)
  isLoading,     \* App's loading flag
  toast,         \* the toast on screen, NoToast when there is none
  cbRuns,        \* onAuthStateChanged callbacks awaiting getDoc, by uid
  logoutPending, \* handleLogout calls awaiting signOut
  \* --- AuthGate ---
  mounted,       \* App renders <AuthGate/>
  loading,       \* the gate's loading flag
  error,         \* the gate's error text
  onTelegramAuthSet, \* window.onTelegramAuth is a function
  att,           \* the sign-in attempts in flight, oldest first
  \* --- bookkeeping of the model ---
  events,        \* user-initiated operations so far
  lastEnded      \* the sign-in attempt that ended last, and how it ended

authVars == <<authUser, accounts, authInit>>
storeVars == <<store, listening, inbox, writes>>
appVars == <<user, isLoading, toast, cbRuns, logoutPending>>
gateVars == <<mounted, loading, error, onTelegramAuthSet, att>>
vars == <<authVars, storeVars, appVars, gateVars, events, lastEnded>>

Init ==
  /\ authUser = NoUser
  /\ accounts = {}
  /\ authInit = FALSE
  /\ store = [u \in Uids |-> NoProfile]
  /\ listening = {}
  /\ inbox = [u \in Uids |-> <<>>]
  /\ writes = <<>>
  /\ user = NoProfile
  /\ isLoading = TRUE
  /\ toast = NoToast
  /\ cbRuns = <<>>
  /\ logoutPending = 0
  /\ mounted = FALSE
  /\ loading = FALSE
  /\ error = ""
  /\ onTelegramAuthSet = FALSE
  /\ att = <<>>
  /\ events = 0
  /\ lastEnded = [how |-> "none"]

(***************************************************************************)
(* Pure helpers.                                                           *)
(***************************************************************************)
\* a || b of JavaScript on strings: the empty string is falsy
OrElse(a, b) == IF a # "" THEN a ELSE b

\* updateDoc's merge of the given fields into a document
Merge(p, fields) ==
  [k \in DOMAIN p |-> IF k \in DOMAIN fields THEN fields[k] ELSE p[k]]

RemoveAt(s, i) == SubSeq(s, 1, i - 1) \o SubSeq(s, i + 1, Len(s))

\* The store's count of the writes a document has had (the version behind
\* a snapshot's update time).  The program never reads it: it is carried
\* with the document only to tell a later committed state from an earlier.
Version(p) == IF p = NoProfile THEN 0 ELSE p.version
Stamped(doc, n) ==
  [k \in DOMAIN doc \cup {"version"} |-> IF k = "version" THEN n ELSE doc[k]]

\* mutant of NewUser: the starting level is 0
NewUserLevelZero(uid, name, email, now) ==
  [uid |-> uid, name |-> name, email |-> email, points |-> DefaultPoints,
   xp |-> 0, level |-> 0, role |-> "member", isGhostMode |-> FALSE,
   twoFactorEnabled |-> FALSE, joinedAt |-> now]

\* the newUser literal shared by the three creating paths
NewUser(uid, name, email, now) ==
  [uid |-> uid, name |-> name, email |-> email, points |-> DefaultPoints,
   xp |-> 0, level |-> 1, role |-> "member", isGhostMode |-> FALSE,
   twoFactorEnabled |-> FALSE, joinedAt |-> now]

TelegramName(tgUser) ==
  tgUser.first_name \o (IF tgUser.last_name # "" THEN " " \o tgUser.last_name ELSE "")
\* mutant of TelegramEmail: the placeholder is built from the id alone
TelegramEmailOfId(tgUser) == "tg_" \o ToString(tgUser.id)

TelegramEmail(tgUser) ==
  IF tgUser.username # "" THEN "@" \o tgUser.username ELSE "tg_" \o ToString(tgUser.id)
TelegramNewUser(uid, tgUser, now) ==
  NewUser(uid, TelegramName(tgUser), TelegramEmail(tgUser), now)
GoogleNewUser(uid, g, now) ==
  NewUser(uid, OrElse(g.displayName, NameUnknownSultan), OrElse(g.email, ""), now)
SubmitNewUser(uid, form, now) ==
  NewUser(uid, OrElse(form.name, NameNewSultan), form.email, now)

\* mutant of NeedsCreate: the existence check is dropped
NeedsCreateAlways(docSnap) == TRUE

\* if (!docSnap.exists()) of the Google and Telegram paths
NeedsCreate(docSnap) == docSnap = NoProfile

\* the account an email address belongs to
EmailUid(email) == CHOOSE u \in PasswordUids : TRUE

\* mutant of AddXPResult: the threshold does not grow with the level
AddXPResultFlatThreshold(xp, level, amount) ==
  LET newXP == xp + amount
      xpToNextLevel == XpPerLevel
  IN IF newXP >= xpToNextLevel
       THEN [xp |-> newXP - xpToNextLevel, level |-> level + 1, levelUp |-> TRUE]
       ELSE [xp |-> newXP, level |-> level, levelUp |-> FALSE]

\* mutant of AddXPResult: levels are added while the xp exceeds the threshold
RECURSIVE AddXPResultLoop(_, _, _)
AddXPResultLoop(xp, level, amount) ==
  IF xp + amount >= level * XpPerLevel
    THEN [AddXPResultLoop(xp + amount - level * XpPerLevel, level + 1, 0)
            EXCEPT !.levelUp = TRUE]
    ELSE [xp |-> xp + amount, level |-> level, levelUp |-> FALSE]

\* the arithmetic of addXP
AddXPResult(xp, level, amount) ==
  LET newXP == xp + amount
      xpToNextLevel == level * XpPerLevel
  IN IF newXP >= xpToNextLevel
       THEN [xp |-> newXP - xpToNextLevel, level |-> level + 1, levelUp |-> TRUE]
       ELSE [xp |-> newXP, level |-> level, levelUp |-> FALSE]

\* the toast of handleToggleGhost, from the value before the toggle
GhostToast(isGhostMode) == IF isGhostMode THEN ToastGhostOff ELSE ToastGhostOn

(***************************************************************************)
(* Rendering: App shows the loading screen while isLoading, the gate while *)
(* there is no mirrored user, the pages otherwise.                         *)
(***************************************************************************)
GateShown(u, l) == ~l /\ u = NoProfile
PagesShown == ~isLoading /\ user # NoProfile

\* the cleanup of the gate's effect: it empties the widget's wrapper and
\* leaves window.onTelegramAuth as it is
EffectCleanup == onTelegramAuthSet' = onTelegramAuthSet

\* setUser / setIsLoading followed by the re-render they cause
Render(u2, l2) ==
  /\ user' = u2
  /\ isLoading' = l2
  /\ mounted' = GateShown(u2, l2)
  /\ IF GateShown(u2, l2) /\ ~mounted
       THEN \* mount: fresh state, the effect installs window.onTelegramAuth
            /\ loading' = FALSE
            /\ error' = ""
            /\ onTelegramAuthSet' = TRUE
            /\ att' = att
       ELSE IF ~GateShown(u2, l2) /\ mounted
         THEN \* unmount: the instance's state is gone, its attempts run on
              /\ loading' = FALSE
              /\ error' = ""
              /\ EffectCleanup
              /\ att' = [a \in DOMAIN att |-> [att[a] EXCEPT !.stale = TRUE]]
         ELSE UNCHANGED <<loading, error, onTelegramAuthSet, att>>

\* the store commits a document and notifies the listeners of this client
Commit(u, doc) ==
  LET committed == Stamped(doc, Version(store[u]) + 1)
  IN /\ store' = [store EXCEPT ![u] = committed]
     /\ inbox' = IF u \in listening
                   THEN [inbox EXCEPT ![u] = Append(@, committed)]
                   ELSE inbox

\* The auth provider makes uid the current user.  When that changes the
\* session it calls the observer, which awaits getDoc(userDocRef).
SignIn(uid) ==
  /\ authUser' = uid
  /\ accounts' = accounts \cup {uid}
  /\ cbRuns' = IF uid # authUser THEN Append(cbRuns, uid) ELSE cbRuns
  /\ UNCHANGED authInit

(***************************************************************************)
(* App: the auth-state observer and the mirror.                            *)
(***************************************************************************)
\* the observer's first call, once the provider has restored the session
onAuthStateChanged_init ==
  /\ ~authInit
  /\ authInit' = TRUE
  /\ IF authUser = NoUser
       THEN /\ Render(NoProfile, FALSE)
            /\ cbRuns' = cbRuns
       ELSE /\ cbRuns' = Append(cbRuns, authUser)
            /\ UNCHANGED <<user, isLoading, gateVars>>
  /\ UNCHANGED <<authUser, accounts, storeVars, toast, logoutPending, events,
                 lastEnded>>

\* getDoc of the i-th running callback resolves, and the callback runs on
onAuthStateChanged_getDoc(i, ok) ==
  /\ i \in 1..Len(cbRuns)
  /\ cbRuns' = RemoveAt(cbRuns, i)
  /\ LET uid == cbRuns[i]
         docSnap == store[uid]
     IN IF ok
          THEN IF docSnap # NoProfile
                 THEN /\ Render(docSnap, FALSE)
                      /\ listening' = listening \cup {uid}
                      /\ inbox' = [inbox EXCEPT ![uid] = Append(@, docSnap)]
                 ELSE /\ Render(NoProfile, FALSE)
                      /\ UNCHANGED <<listening, inbox>>
          ELSE /\ Render(user, FALSE)
               /\ UNCHANGED <<listening, inbox>>
  /\ UNCHANGED <<authVars, store, writes, toast, logoutPending, events, lastEnded>>

\* the listener of users/<uid> receives its next snapshot
onSnapshot_deliver(uid) ==
  /\ uid \in listening
  /\ inbox[uid] # <<>>
  /\ inbox' = [inbox EXCEPT ![uid] = Tail(@)]
  /\ IF Head(inbox[uid]) # NoProfile
       THEN Render(Head(inbox[uid]), isLoading)
       ELSE UNCHANGED <<user, isLoading, gateVars>>
  /\ UNCHANGED <<authVars, store, listening, writes, toast, cbRuns,
                 logoutPending, events, lastEnded>>

(***************************************************************************)
(* App: the write-through mutations.                                       *)
(***************************************************************************)
\* mutant of addXP: the new xp and level are also put in the mirror
addXPOptimistic(amount) ==
  /\ PagesShown
  /\ events < MaxEvents
  /\ events' = events + 1
  /\ LET r == AddXPResult(user.xp, user.level, amount)
     IN /\ toast' = IF r.levelUp THEN ToastLevelUp(r.level) ELSE toast
        /\ writes' = Append(writes, [op |-> "addXP", uid |-> user.uid,
                                     fields |-> [xp |-> r.xp, level |-> r.level]])
        /\ user' = [user EXCEPT !.xp = r.xp, !.level = r.level]
  /\ UNCHANGED <<authVars, store, listening, inbox, isLoading, cbRuns,
                 logoutPending, gateVars, lastEnded>>

addXP(amount) ==
  /\ PagesShown
  /\ events < MaxEvents
  /\ events' = events + 1
  /\ LET r == AddXPResult(user.xp, user.level, amount)
     IN /\ toast' = IF r.levelUp THEN ToastLevelUp(r.level) ELSE toast
        /\ writes' = Append(writes, [op |-> "addXP", uid |-> user.uid,
                                     fields |-> [xp |-> r.xp, level |-> r.level]])
  /\ UNCHANGED <<authVars, store, listening, inbox, user, isLoading, cbRuns,
                 logoutPending, gateVars, lastEnded>>

\* mutant of updatePoints: the amount is added to the stored points
updatePointsOfStore(amount) ==
  /\ PagesShown
  /\ events < MaxEvents
  /\ events' = events + 1
  /\ writes' = Append(writes, [op |-> "updatePoints", uid |-> user.uid,
                               fields |-> [points |-> store[user.uid].points + amount]])
  /\ UNCHANGED <<authVars, store, listening, inbox, user, isLoading, toast,
                 cbRuns, logoutPending, gateVars, lastEnded>>

updatePoints(amount) ==
  /\ PagesShown
  /\ events < MaxEvents
  /\ events' = events + 1
  /\ writes' = Append(writes, [op |-> "updatePoints", uid |-> user.uid,
                               fields |-> [points |-> user.points + amount]])
  /\ UNCHANGED <<authVars, store, listening, inbox, user, isLoading, toast,
                 cbRuns, logoutPending, gateVars, lastEnded>>

handleToggleGhost ==
  /\ PagesShown
  /\ events < MaxEvents
  /\ events' = events + 1
  /\ writes' = Append(writes, [op |-> "handleToggleGhost", uid |-> user.uid,
                               fields |-> [isGhostMode |-> ~user.isGhostMode],
                               toast |-> GhostToast(user.isGhostMode)])
  /\ UNCHANGED <<authVars, store, listening, inbox, user, isLoading, toast,
                 cbRuns, logoutPending, gateVars, lastEnded>>

\* the oldest updateDoc resolves; handleToggleGhost then shows its toast
updateDoc_resolve(ok) ==
  /\ writes # <<>>
  /\ writes' = Tail(writes)
  /\ LET w == Head(writes)
         applied == ok /\ store[w.uid] # NoProfile
     IN /\ IF applied
             THEN Commit(w.uid, Merge(store[w.uid], w.fields))
             ELSE UNCHANGED <<store, inbox>>
        /\ toast' = IF applied /\ w.op = "handleToggleGhost" THEN w.toast ELSE toast
  /\ UNCHANGED <<authVars, listening, user, isLoading, cbRuns, logoutPending,
                 gateVars, events, lastEnded>>

handleLogout ==
  /\ PagesShown
  /\ events < MaxEvents
  /\ events' = events + 1
  /\ Render(user, TRUE)
  /\ logoutPending' = logoutPending + 1
  /\ UNCHANGED <<authVars, storeVars, toast, cbRuns, lastEnded>>

\* signOut resolves (the observer is called with null), handleLogout runs on
handleLogout_signOut(ok) ==
  /\ logoutPending > 0
  /\ logoutPending' = logoutPending - 1
  /\ IF ok
       THEN /\ authUser' = NoUser
            /\ Render(NoProfile, FALSE)
            /\ toast' = ToastLogout
       ELSE UNCHANGED <<authUser, user, isLoading, gateVars, toast>>
  /\ UNCHANGED <<accounts, authInit, storeVars, cbRuns, events, lastEnded>>

\* the timer of showToast fires: setToast(null)
showToast_timeout ==
  /\ toast # NoToast
  /\ toast' = NoToast
  /\ UNCHANGED <<authVars, storeVars, user, isLoading, cbRuns, logoutPending,
                 gateVars, events, lastEnded>>

(***************************************************************************)
(* AuthGate: what the three handlers share.                                *)
(***************************************************************************)
\* setLoading(true); setError('') and the handler's first awaited call.
\* The state setters of an unmounted instance change nothing.
Begin(method, input) ==
  /\ events < MaxEvents
  /\ Len(att) < MaxInFlight
  /\ events' = events + 1
  /\ att' = Append(att, [pc |-> "auth", method |-> method, uid |-> NoUser,
                         stale |-> ~mounted, input |-> input,
                         newUser |-> NoProfile])
  /\ loading' = IF mounted THEN TRUE ELSE loading
  /\ error' = IF mounted THEN "" ELSE error
  /\ UNCHANGED <<authVars, storeVars, appVars, mounted, onTelegramAuthSet, lastEnded>>

\* what lastEnded keeps of an attempt
Ended(attempt, how) ==
  [how |-> how, method |-> attempt.method, uid |-> attempt.uid,
   input |-> attempt.input]

\* catch { setError(msg) } finally { setLoading(false) }
Catch(a, msg) ==
  /\ att' = RemoveAt(att, a)
  /\ error' = IF att[a].stale THEN error ELSE msg
  /\ loading' = IF att[a].stale THEN loading ELSE FALSE
  /\ lastEnded' = Ended(att[a], "failed")

\* the try block ends; finally { setLoading(false) }
Finally(a, how) ==
  /\ att' = RemoveAt(att, a)
  /\ loading' = IF att[a].stale THEN loading ELSE FALSE
  /\ lastEnded' = Ended(att[a], how)
  /\ UNCHANGED error

\* the handler goes on to its next awaited call
Await(a, pc, uid, input, newUser) ==
  /\ att' = [att EXCEPT ![a].pc = pc, ![a].uid = uid, ![a].input = input,
                        ![a].newUser = newUser]
  /\ UNCHANGED <<loading, error, lastEnded>>

\* attempt a of the method awaits the call pc
At(a, method, pc) ==
  /\ a \in 1..Len(att)
  /\ att[a].method = method
  /\ att[a].pc = pc

\* the uid signInAnonymously resolves to: the current user when it is
\* anonymous, a new anonymous identity otherwise
AnonymousUids ==
  IF authUser \in AnonUids THEN {authUser} ELSE AnonUids \ accounts

\* await setDoc(userDocRef, newUser) resolves, ending the try block
SetDocStep(a, method, ok, msg) ==
  /\ At(a, method, "setDoc")
  /\ IF ok
       THEN /\ Commit(att[a].uid, att[a].newUser)
            /\ Finally(a, "created")
       ELSE /\ Catch(a, msg)
            /\ UNCHANGED <<store, inbox>>
  /\ UNCHANGED <<authVars, listening, writes, appVars, mounted, onTelegramAuthSet,
                 events>>

\* await getDoc(userDocRef) resolves; the profile is written when absent
GetDocStep(a, method, ok, newUser, msg) ==
  /\ At(a, method, "getDoc")
  /\ IF ok
       THEN IF NeedsCreate(store[att[a].uid])
              THEN Await(a, "setDoc", att[a].uid, att[a].input, newUser)
              ELSE Finally(a, "kept")
       ELSE Catch(a, msg)
  /\ UNCHANGED <<authVars, storeVars, appVars, mounted, onTelegramAuthSet, events>>

(***************************************************************************)
(* AuthGate: window.onTelegramAuth.                                        *)
(***************************************************************************)
onTelegramAuth(tgUser) ==
  /\ onTelegramAuthSet
  /\ Begin("telegram", tgUser)

\* await signInAnonymously(auth) resolves
onTelegramAuth_signIn(a, ok) ==
  /\ At(a, "telegram", "auth")
  /\ IF ok /\ AnonymousUids # {}
       THEN \E uid \in AnonymousUids :
              /\ SignIn(uid)
              /\ Await(a, "getDoc", uid, att[a].input, NoProfile)
       ELSE /\ Catch(a, ErrTelegram)
            /\ UNCHANGED <<authVars, cbRuns>>
  /\ UNCHANGED <<storeVars, user, isLoading, toast, logoutPending, mounted,
                 onTelegramAuthSet, events>>

onTelegramAuth_getDoc(a, ok, now) ==
  /\ At(a, "telegram", "getDoc")
  /\ GetDocStep(a, "telegram", ok, TelegramNewUser(att[a].uid, att[a].input, now),
                ErrTelegram)

onTelegramAuth_setDoc(a, ok) == SetDocStep(a, "telegram", ok, ErrTelegram)

(***************************************************************************)
(* AuthGate: handleGoogleLogin.                                            *)
(***************************************************************************)
\* the Google button is disabled while loading
handleGoogleLogin ==
  /\ mounted
  /\ ~loading
  /\ Begin("google", <<>>)

\* await signInWithPopup(auth, googleProvider) resolves
handleGoogleLogin_popup(a, ok, g) ==
  /\ At(a, "google", "auth")
  /\ IF ok
       THEN \E uid \in GoogleUids :
              /\ SignIn(uid)
              /\ Await(a, "getDoc", uid, g, NoProfile)
       ELSE /\ Catch(a, ErrGoogle)
            /\ UNCHANGED <<authVars, cbRuns>>
  /\ UNCHANGED <<storeVars, user, isLoading, toast, logoutPending, mounted,
                 onTelegramAuthSet, events>>

handleGoogleLogin_getDoc(a, ok, now) ==
  /\ At(a, "google", "getDoc")
  /\ GetDocStep(a, "google", ok, GoogleNewUser(att[a].uid, att[a].input, now),
                ErrGoogle)

handleGoogleLogin_setDoc(a, ok) == SetDocStep(a, "google", ok, ErrGoogle)

(***************************************************************************)
(* AuthGate: handleSubmit.                                                 *)
(***************************************************************************)
\* if (loading) return; and the submit button is disabled while loading
handleSubmit(isLogin, email, name) ==
  /\ mounted
  /\ ~loading
  /\ Begin("password", [isLogin |-> isLogin, email |-> email, name |-> name])

\* the message of handleSubmit's catch, from err.code
SubmitError(code) ==
  IF code = "auth/user-not-found" THEN ErrUserNotFound ELSE ErrCredentials

\* await signInWithEmailAndPassword resolves
handleSubmit_signIn(a, ok) ==
  /\ At(a, "password", "auth")
  /\ att[a].input.isLogin
  /\ LET uid == EmailUid(att[a].input.email)
     IN IF uid \notin accounts
          THEN /\ Catch(a, SubmitError("auth/user-not-found"))
               /\ UNCHANGED <<authVars, cbRuns>>
          ELSE IF ok
            THEN /\ SignIn(uid)
                 /\ Finally(a, "signed in")
            ELSE /\ Catch(a, SubmitError("auth/wrong-password"))
                 /\ UNCHANGED <<authVars, cbRuns>>
  /\ UNCHANGED <<storeVars, user, isLoading, toast, logoutPending, mounted,
                 onTelegramAuthSet, events>>

\* await createUserWithEmailAndPassword resolves; newUser is built
handleSubmit_createUser(a, ok, now) ==
  /\ At(a, "password", "auth")
  /\ ~att[a].input.isLogin
  /\ LET uid == EmailUid(att[a].input.email)
     IN IF uid \in accounts
          THEN /\ Catch(a, SubmitError("auth/email-already-in-use"))
               /\ UNCHANGED <<authVars, cbRuns>>
          ELSE IF ok
            THEN /\ SignIn(uid)
                 /\ Await(a, "setDoc", uid, att[a].input,
                          SubmitNewUser(uid, att[a].input, now))
            ELSE /\ Catch(a, SubmitError("auth/weak-password"))
                 /\ UNCHANGED <<authVars, cbRuns>>
  /\ UNCHANGED <<storeVars, user, isLoading, toast, logoutPending, mounted,
                 onTelegramAuthSet, events>>

handleSubmit_setDoc(a, ok) == SetDocStep(a, "password", ok, SubmitError("unavailable"))

(***************************************************************************)
(* The specification.                                                      *)
(***************************************************************************)
\* Oks: how a call to the provider or the store may end (TRUE: it resolves)
NextWith(Oks) ==
  \/ onAuthStateChanged_init
  \/ \E i \in 1..MaxEvents, ok \in Oks : onAuthStateChanged_getDoc(i, ok)
  \/ \E uid \in Uids : onSnapshot_deliver(uid)
  \/ \E amount \in XpAmounts : addXP(amount)
  \/ \E amount \in PointAmounts : updatePoints(amount)
  \/ handleToggleGhost
  \/ \E ok \in Oks : updateDoc_resolve(ok)
  \/ handleLogout
  \/ \E ok \in Oks : handleLogout_signOut(ok)
  \/ showToast_timeout
  \/ \E tgUser \in TgUsers : onTelegramAuth(tgUser)
  \/ \E a \in Slots, ok \in Oks : onTelegramAuth_signIn(a, ok)
  \/ \E a \in Slots, ok \in Oks, now \in Clock : onTelegramAuth_getDoc(a, ok, now)
  \/ \E a \in Slots, ok \in Oks : onTelegramAuth_setDoc(a, ok)
  \/ handleGoogleLogin
  \/ \E a \in Slots, ok \in Oks, g \in GoogleUsers : handleGoogleLogin_popup(a, ok, g)
  \/ \E a \in Slots, ok \in Oks, now \in Clock : handleGoogleLogin_getDoc(a, ok, now)
  \/ \E a \in Slots, ok \in Oks : handleGoogleLogin_setDoc(a, ok)
  \/ \E isLogin \in BOOLEAN, email \in FormEmails, name \in FormNames :
       handleSubmit(isLogin, email, name)
  \/ \E a \in Slots, ok \in Oks : handleSubmit_signIn(a, ok)
  \/ \E a \in Slots, ok \in Oks, now \in Clock : handleSubmit_createUser(a, ok, now)
  \/ \E a \in Slots, ok \in Oks : handleSubmit_setDoc(a, ok)

Next == NextWith(BOOLEAN)
\* no call to the provider or to the store rejects
NextOk == NextWith({TRUE})

\* a fresh installation: no session, no account, an empty store
Spec == Init /\ [][Next]_vars
SpecOk == Init /\ [][NextOk]_vars

(***************************************************************************)
(* A returning user: the page is loaded with the Google user's session     *)
(* persisted by the provider and the profile created at an earlier visit.  *)
(* xp and level are what the addXP calls of earlier visits left.           *)
(***************************************************************************)
SessionUid == CHOOSE u \in GoogleUids : TRUE
SessionGoogleUser == [displayName |-> "Gina", email |-> "g@x.com"]
SessionXpLevels == {<<0, 1>>, <<400, 1>>, <<400, 2>>}
SessionProfiles ==
  { Stamped([GoogleNewUser(SessionUid, SessionGoogleUser, 1)
               EXCEPT !.xp = xl[1], !.level = xl[2]], 1) : xl \in SessionXpLevels }

SessionInit ==
  /\ authUser = SessionUid
  /\ accounts = {SessionUid}
  /\ authInit = FALSE
  /\ \E p \in SessionProfiles :
       store = [u \in Uids |-> IF u = SessionUid THEN p ELSE NoProfile]
  /\ listening = {}
  /\ inbox = [u \in Uids |-> <<>>]
  /\ writes = <<>>
  /\ user = NoProfile
  /\ isLoading = TRUE
  /\ toast = NoToast
  /\ cbRuns = <<>>
  /\ logoutPending = 0
  /\ mounted = FALSE
  /\ loading = FALSE
  /\ error = ""
  /\ onTelegramAuthSet = FALSE
  /\ att = <<>>
  /\ events = 0
  /\ lastEnded = [how |-> "none"]

SpecSession == SessionInit /\ [][Next]_vars
\* the same, with no call rejecting
SpecSessionOk == SessionInit /\ [][NextOk]_vars

(***************************************************************************)
(* The same returning user, seen either at the page load or later in the   *)
(* visit: the observer has read the profile and subscribed, an addXP call  *)
(* has been committed, and neither the listener's initial snapshot nor the *)
(* snapshot of that write has been delivered yet.                          *)
(***************************************************************************)
LaggingInit ==
  \E p \in SessionProfiles, amount \in XpAmounts :
    LET r == AddXPResult(p.xp, p.level, amount)
        written == Stamped(Merge(p, [xp |-> r.xp, level |-> r.level]),
                           Version(p) + 1)
    IN /\ authUser = SessionUid
       /\ accounts = {SessionUid}
       /\ authInit = TRUE
       /\ store = [u \in Uids |-> IF u = SessionUid THEN written ELSE NoProfile]
       /\ listening = {SessionUid}
       /\ inbox = [u \in Uids |-> IF u = SessionUid THEN <<p, written>> ELSE <<>>]
       /\ writes = <<>>
       /\ user = p
       /\ isLoading = FALSE
       /\ toast = NoToast
       /\ cbRuns = <<>>
       /\ logoutPending = 0
       /\ mounted = FALSE
       /\ loading = FALSE
       /\ error = ""
       /\ onTelegramAuthSet = FALSE
       /\ att = <<>>
       /\ events = 0
       /\ lastEnded = [how |-> "none"]

SpecLagging == (SessionInit \/ LaggingInit) /\ [][Next]_vars

(***************************************************************************)
(* What the claims are stated with.                                        *)
(***************************************************************************)
\* attempt a ends at this step, in the way `how`
Ends(a, how) ==
  /\ a \in 1..Len(att)
  /\ att' = RemoveAt(att, a)
  /\ lastEnded' = Ended(att[a], how)

\* attempt a, awaiting the call pc, runs on at this step
StepsFrom(a, pc) ==
  /\ a \in 1..Len(att)
  /\ att[a].pc = pc
  /\ \/ att' = RemoveAt(att, a)
     \/ Len(att') = Len(att) /\ att'[a].pc # pc

\* nothing is in flight
Quiescent ==
  /\ att = <<>>
  /\ cbRuns = <<>>
  /\ writes = <<>>
  /\ logoutPending = 0
  /\ \A u \in Uids : inbox[u] = <<>>

\* the updateDoc of an addXP call resolves at this step
XpWriteResolves ==
  /\ writes # <<>>
  /\ Head(writes).op = "addXP"
  /\ writes' = Tail(writes)

\* the oldest pending write, of addXP, is merged into its document
XpWriteMerged ==
  LET w == Head(writes)
  IN \A u \in Uids :
       store'[u] = IF u = w.uid
                     THEN [store[u] EXCEPT !.xp = w.fields.xp,
                                           !.level = w.fields.level,
                                           !.version = @ + 1]
                     ELSE store[u]

(***************************************************************************)
(* The claims.                                                             *)
(***************************************************************************)
\* C1: a profile is written in full (setDoc) only for a uid that has no
\* profile, so that no sign-in re-creates or replaces an existing profile,
\* whatever the interleaving of the sign-in operations.
C1_ProfileCreatedAtMostOnce ==
  [][\A a \in Slots : Ends(a, "created") => store[att[a].uid] = NoProfile]_vars

\* C2: when the getDoc of a Google or Telegram sign-in resolves for a uid
\* whose profile exists, the sign-in ends there and the store is left as it
\* was, whatever name and email the method supplied: a second bootstrap of
\* the same uid leaves the profile of the first.
C2_ExistingProfileUnchanged ==
  [][\A a \in Slots :
       ( /\ StepsFrom(a, "getDoc")
         /\ att[a].method \in {"google", "telegram"}
         /\ store[att[a].uid] # NoProfile )
       => (store' = store /\ att' = RemoveAt(att, a))]_vars

\* a Google sign-in has ended, without failing, for a uid whose stored name
\* and email differ from the ones the popup supplied
C2_Witness ==
  /\ lastEnded.how = "kept"
  /\ lastEnded.method = "google"
  /\ store[lastEnded.uid] # NoProfile
  /\ store[lastEnded.uid].name # GoogleNewUser(lastEnded.uid, lastEnded.input, 1).name
  /\ store[lastEnded.uid].email # GoogleNewUser(lastEnded.uid, lastEnded.input, 1).email

\* C3: after a first sign-in that created the profile, with no call failing,
\* the mirror equals the stored profile once nothing is in flight any more
\* (the state the claim's "eventually" must have reached by then).
C3_MirrorFollowsFirstSignIn ==
  (events = 1 /\ lastEnded.how = "created" /\ Quiescent /\ authUser # NoUser)
    => user = store[authUser]

\* C4: once handleLogout has completed and until the next sign-in (nobody
\* signed in, no attempt and no auth-state callback in flight), a null
\* mirror stays null.
C4_MirrorStaysNullAfterLogout ==
  [][( /\ authUser = NoUser
       /\ user = NoProfile
       /\ logoutPending = 0
       /\ att = <<>>
       /\ cbRuns = <<>> )
     => user' = NoProfile]_vars

\* C5: every profile a sign-in writes with setDoc is keyed and stamped with
\* the uid the provider returned, has points 1000, xp 0, level 1, role
\* member and both flags false; a password sign-up with a non-empty name
\* stores the entered name and email.
C5_CreatedProfileDefaults ==
  [][\A a \in Slots :
       Ends(a, "created") =>
         LET p == store'[att[a].uid]
         IN /\ att[a].uid \in accounts
            /\ p.uid = att[a].uid
            /\ p.points = 1000
            /\ p.xp = 0
            /\ p.level = 1
            /\ p.role = "member"
            /\ p.isGhostMode = FALSE
            /\ p.twoFactorEnabled = FALSE
            /\ (att[a].method = "password" /\ att[a].input.name # "")
                 => (p.name = att[a].input.name /\ p.email = att[a].input.email)]_vars

\* the sign-up of the spec's scenario (a@x.com, Amira) has created its profile
C5_Witness ==
  \E now \in Clock :
    store[EmailUid("a@x.com")] =
      [uid |-> EmailUid("a@x.com"), name |-> "Amira", email |-> "a@x.com",
       points |-> 1000, xp |-> 0, level |-> 1, role |-> "member",
       isGhostMode |-> FALSE, twoFactorEnabled |-> FALSE, joinedAt |-> now,
       version |-> 1]

\* C6: addXP(amount) with xp + amount < level * 1000 of the mirrored profile
\* issues the write {xp: xp + amount, level: level} and shows no toast; when
\* the write resolves, the store either rejects it or merges exactly these
\* two fields.
C6_AddXPBelowThreshold ==
  /\ [][\A amount \in XpAmounts :
          (addXP(amount) /\ user.xp + amount < user.level * 1000)
          => /\ writes' = Append(writes,
                            [op |-> "addXP", uid |-> user.uid,
                             fields |-> [xp |-> user.xp + amount,
                                         level |-> user.level]])
             /\ toast' = toast]_vars
  /\ [][XpWriteResolves => (store' = store \/ XpWriteMerged)]_vars

\* addXP(600) on the mirrored {xp: 400, level: 2} has reached the store
C6_Witness ==
  /\ events >= 1
  /\ store[SessionUid].xp = 1000
  /\ store[SessionUid].level = 2

\* C7: addXP(amount) with xp + amount >= level * 1000 of the mirrored
\* profile issues the write {xp: xp + amount - level * 1000, level: level + 1}
\* (one level, however large the amount) and shows the level-up toast.
C7_AddXPLevelsUpOnce ==
  [][\A amount \in XpAmounts :
       (addXP(amount) /\ user.xp + amount >= user.level * 1000)
       => /\ writes' = Append(writes,
                         [op |-> "addXP", uid |-> user.uid,
                          fields |-> [xp |-> user.xp + amount - user.level * 1000,
                                      level |-> user.level + 1]])
          /\ toast' = ToastLevelUp(user.level + 1)]_vars

\* addXP(3000) on the mirrored {xp: 0, level: 1} has reached the store and
\* the mirror as {xp: 2000, level: 2}: one level, although 2000 >= 2 * 1000
C7_Witness ==
  /\ user # NoProfile
  /\ user.xp = 2000
  /\ user.level = 2
  /\ store[SessionUid] = user

\* C8: when two handleToggleGhost calls are the only operations so far and
\* both writes are still pending (the first one's snapshot has not reached
\* the mirror), the second one writes back the value the store holds, and
\* the two toasts differ.
C8_ToggleTwiceRestores ==
  ( /\ events = 2
    /\ Len(writes) = 2
    /\ writes[1].op = "handleToggleGhost"
    /\ writes[2].op = "handleToggleGhost" )
  => /\ writes[2].fields.isGhostMode = store[writes[2].uid].isGhostMode
     /\ writes[1].toast # writes[2].toast

\* C9: when the profile read of a sign-in fails, after the auth-state
\* callback of that sign-in has run, the gate shows an error, its loading
\* flag is false and the mirror is null.
C9_FailureKeepsUserOnGate ==
  [][\A a \in Slots :
       (Ends(a, "failed") /\ att[a].pc = "getDoc" /\ cbRuns = <<>>)
       => (error' # "" /\ loading' = FALSE /\ user' = NoProfile)]_vars

\* C10: while the gate is torn down, no sign-in attempt starts (an
\* invocation of window.onTelegramAuth finds no callback).
C10_NoAttemptAfterTeardown ==
  [][~mounted => Len(att') <= Len(att)]_vars

\* C11: the mirror never goes back: when a step takes it from one state of
\* a uid's profile to another, the new state was committed no earlier than
\* the old one, whether it comes from the observer's profile read or from a
\* snapshot.
C11_MirrorNeverGoesBack ==
  [][(user # NoProfile /\ user' # NoProfile /\ user'.uid = user.uid)
     => user'.version >= user.version]_vars

\* C12: updatePoints(b) writes the mirrored points plus b, whatever is
\* stored or pending; with no call failing its write is never rejected and
\* sets the stored points to that value (last write wins).  So two calls
\* made before the first snapshot is mirrored both add to the same points p
\* and the store ends with p + b, while a call made after the first write
\* was mirrored adds to p + a.
C12_PointsLastWriteWins ==
  /\ [][\A b \in PointAmounts :
          updatePoints(b)
          => writes' = Append(writes,
                         [op |-> "updatePoints", uid |-> user.uid,
                          fields |-> [points |-> user.points + b]])]_vars
  /\ [][(writes # <<>> /\ Head(writes).op = "updatePoints" /\ writes' = Tail(writes))
        => store'[Head(writes).uid].points = Head(writes).fields.points]_vars
  /\ []( ( /\ events = 2
           /\ Len(writes) = 2
           /\ writes[1].op = "updatePoints"
           /\ writes[2].op = "updatePoints" )
         => \E a, b \in PointAmounts :
              /\ writes[1].fields.points = store[writes[1].uid].points + a
              /\ writes[2].fields.points = store[writes[2].uid].points + b )

\* two updatePoints calls, both made from the mirrored 1000 points, have been
\* committed and the store has ended with 1025: one amount is lost
C12_Witness ==
  /\ events = 2
  /\ writes = <<>>
  /\ \E p \in SessionProfiles :
       store[SessionUid] = [p EXCEPT !.points = 1025, !.version = 3]

\* the fields each mutation may write
OwnFields(op) ==
  CASE op = "addXP" -> {"xp", "level"}
    [] op = "updatePoints" -> {"points"}
    [] op = "handleToggleGhost" -> {"isGhostMode"}

\* C13: a call of addXP, updatePoints or handleToggleGhost, and the
\* resolution of its updateDoc, leave the mirror as it was; the call leaves
\* the store as it was and its write carries only its own fields; the
\* resolution changes at most these fields of that one document; and the
\* mirror changes only when a snapshot is delivered, when the auth-state
\* observer runs or when signOut resolves.
C13_MutationsLeaveMirror ==
  /\ [][( \/ \E amount \in XpAmounts : addXP(amount)
          \/ \E amount \in PointAmounts : updatePoints(amount)
          \/ handleToggleGhost )
        => /\ user' = user
           /\ store' = store
           /\ Len(writes') = Len(writes) + 1
           /\ writes'[Len(writes')].uid = user.uid
           /\ DOMAIN writes'[Len(writes')].fields
                = OwnFields(writes'[Len(writes')].op)]_vars
  /\ [][(writes # <<>> /\ writes' = Tail(writes))
        => /\ user' = user
           /\ \A u \in Uids :
                \/ store'[u] = store[u]
                \/ /\ u = Head(writes).uid
                   /\ DOMAIN store'[u] = DOMAIN store[u]
                   /\ \A k \in DOMAIN store[u] \ {"version"} :
                        store'[u][k] = IF k \in DOMAIN Head(writes).fields
                                         THEN Head(writes).fields[k]
                                         ELSE store[u][k]]_vars
  /\ [][user' # user
        => \/ \E u \in Uids : onSnapshot_deliver(u)
           \/ \E i \in 1..Len(cbRuns), ok \in BOOLEAN : onAuthStateChanged_getDoc(i, ok)
           \/ onAuthStateChanged_init
           \/ \E ok \in BOOLEAN : handleLogout_signOut(ok)]_vars

\* a mutation of the shown profile has been committed and the mirror still
\* holds the state from before the call
C13_Witness ==
  /\ PagesShown
  /\ events >= 1
  /\ writes = <<>>
  /\ user.uid = SessionUid
  /\ store[SessionUid].version = user.version + 1
  /\ store[SessionUid] # [user EXCEPT !.version = @ + 1]

\* C14: the profile created by a first Telegram sign-in has the name
\* first_name, followed by a space and last_name when there is one, and the
\* email "@" + username when there is a username, "tg_" + id otherwise.
C14_TelegramNameAndEmail ==
  [][\A a \in Slots :
       (Ends(a, "created") /\ att[a].method = "telegram")
       => LET tgUser == att[a].input
              p == store'[att[a].uid]
          IN /\ p.name = IF tgUser.last_name = ""
                           THEN tgUser.first_name
                           ELSE tgUser.first_name \o " " \o tgUser.last_name
             /\ p.email = IF tgUser.username = ""
                            THEN "tg_" \o ToString(tgUser.id)
                            ELSE "@" \o tgUser.username]_vars

\* the payload {id: 55, first_name: "Omar", username: "omarx"} of the spec's
\* scenario has created its profile
C14_Witness ==
  /\ lastEnded.how = "created"
  /\ lastEnded.method = "telegram"
  /\ lastEnded.input.id = 55
  /\ store[lastEnded.uid].name = "Omar"
  /\ store[lastEnded.uid].email = "@omarx"
  /\ store[lastEnded.uid].points = 1000
  /\ store[lastEnded.uid].xp = 0
  /\ store[lastEnded.uid].level = 1

\* C15: a snapshot that changes the mirror while a principal is signed in
\* leaves the mirror holding the profile of that principal: the snapshot of
\* another user's document never replaces the mirror.
C15_MirrorIsOfSignedInUser ==
  [][\A u \in Uids :
       (onSnapshot_deliver(u) /\ authUser # NoUser /\ user' # user)
       => user'.uid = authUser]_vars

\* C16: the level stored for a uid never decreases.
C16_StoredLevelNeverDecreases ==
  [][\A u \in Uids :
       (store[u] # NoProfile /\ store'[u] # NoProfile)
       => store'[u].level >= store[u].level]_vars

\* C17: at most one sign-in attempt is in flight at any time.
C17_OneAttemptAtATime ==
  Len(att) <= 1

\* C18: when the write of the only addXP call so far is rejected by the
\* store although it carries an incremented level, no level-up toast of
\* that level is on screen.
C18_LevelUpToastOnlyIfCommitted ==
  [][( /\ XpWriteResolves
       /\ events = 1
       /\ store' = store
       /\ Head(writes).fields.level > store[Head(writes).uid].level )
     => toast # ToastLevelUp(Head(writes).fields.level)]_vars

\* C19: once the observer has had its first call and neither an observer
\* callback nor a signOut is pending any more, App's loading flag is false
\* (the state "eventually false" must have reached by then).
C19_LoadingEnds ==
  (authInit /\ cbRuns = <<>> /\ logoutPending = 0) => ~isLoading

=============================================================================
